---- MODULE Spec2Model ----
(***************************************************************************)
(* Model of the account-linking core of CelesteBot: the JSON document kept *)
(* by DataManager (src/data_manager.py), its lock, and the handlers of     *)
(* MessageHandler (src/qq_bot.py) that drive it from several threads.      *)
(*                                                                         *)
(* A Python dict is a TLA+ function whose DOMAIN is the dict's key set.    *)
(* Every `with self.lock:` block is one atomic step: the lock is held by   *)
(* at most one thread, and nothing else reads or writes the document.  A   *)
(* thread is between two blocks when its pc is not "idle".  time.time()    *)
(* is the variable now, in whole seconds.                                  *)
(*                                                                         *)
(* The second half of the module takes the same handlers apart: the lock   *)
(* is the variable lock, the file on disk is file (what kind of content it *)
(* holds) and data (the document, when it holds one), and a critical       *)
(* section is entered, writes the file in two steps and is left.  The      *)
(* calls to the chat client and the account service are steps of their own.*)
(***************************************************************************)
EXTENDS Integers, Sequences, FiniteSets, TLC

(* ------------------------------ bounds -------------------------------- *)
\* threads that call into DataManager at the same time
NumThreads == 2
\* calls started in one behaviour: by the threads, and by the one thread of
\* the program as wired
MaxCalls == 2
MaxSeqCalls == 3

(* ------------------------- program constants -------------------------- *)
VERIFICATION_TIMEOUT == 300
BIND_COOLDOWN == 60

(* ------------------------------ domains ------------------------------- *)
None == "None"

\* str(data.get("user_id", "")): an event without user_id yields "".
QQNumbers == {"", "10001"}

\* message[6:].strip() of a stripped message that starts with "/bind ".
Usernames == {"alice", "bob"}

\* str(random.randint(100000, 999999))
Codes == {100000}

\* message[8:].strip() of a /verify message: an issued code or another text.
WrongCode == 0
SuppliedCodes == Codes \cup {WrongCode}

Threads == 1..NumThreads

\* The instants at which the clock is read: the start, and those around the
\* two deadlines, the cooldown and the expiry, of a request made at the start.
Instants == {0, BIND_COOLDOWN - 1, BIND_COOLDOWN,
             VERIFICATION_TIMEOUT, VERIFICATION_TIMEOUT + 1}

(* --------------------------- dict helpers ----------------------------- *)
EmptyDict == [k \in {} |-> None]

Get(d, k) == IF k \in DOMAIN d THEN d[k] ELSE None

Put(d, k, v) == [x \in (DOMAIN d) \cup {k} |-> IF x = k THEN v ELSE d[x]]

Pop(d, k) == [x \in (DOMAIN d) \ {k} |-> d[x]]

\* Python truth value of an Optional[str]: None and "" are false.
Truthy(s) == s # None /\ s # ""

VARIABLES data, now, pc, locals, ret, calls, file, lock

vars == <<data, now, pc, locals, ret, calls, file, lock>>

NoLocals == [op |-> None, qq |-> None, username |-> None, code |-> 0,
             expire_time |-> 0, request_time |-> 0]

NoRet == [thread |-> 0, op |-> None, status |-> None, qq |-> None, username |-> None,
          code |-> 0, remaining |-> 0]

DefaultDocument == [bindings |-> EmptyDict,
                    user_qq_map |-> EmptyDict,
                    notifications |-> EmptyDict,
                    groups |-> << >>,
                    pending_bindings |-> EmptyDict]

Init ==
    /\ data = DefaultDocument
    /\ now = 0
    /\ pc = [t \in Threads |-> "idle"]
    /\ locals = [t \in Threads |-> NoLocals]
    /\ ret = NoRet
    /\ calls = 0
    /\ file = "document"
    /\ lock = 0

(* ------------------- DataManager: critical sections ------------------- *)
\* get_binding, lines 48-50.
get_binding(d, qq_number) == Get(d.bindings, qq_number)

\* get_qq_by_username, lines 54-56.
get_qq_by_username(d, username) == Get(d.user_qq_map, username)

\* Mutant of set_binding: the reverse map is not written.
set_binding_forward_only(d, qq_number, username) ==
    [d EXCEPT !.bindings = Put(@, qq_number, username)]

\* set_binding, lines 61-78: the document after the block.
set_binding(d, qq_number, username) ==
    LET old_username == Get(d.bindings, qq_number)
        map1 == IF Truthy(old_username)
                THEN Pop(d.user_qq_map, old_username)
                ELSE d.user_qq_map
        old_qq == Get(map1, username)
        bind1 == IF Truthy(old_qq) THEN Pop(d.bindings, old_qq) ELSE d.bindings
    IN [d EXCEPT !.bindings = Put(bind1, qq_number, username),
                 !.user_qq_map = Put(map1, username, qq_number)]

\* Mutant of check_bind_cooldown: the window is closed at its end (<=).
check_bind_cooldown_le(d, qq_number, t) ==
    IF qq_number \in DOMAIN d.pending_bindings
    THEN LET elapsed == t - d.pending_bindings[qq_number].request_time
         IN IF elapsed <= BIND_COOLDOWN
            THEN <<FALSE, BIND_COOLDOWN - elapsed>>
            ELSE <<TRUE, 0>>
    ELSE <<TRUE, 0>>

\* Mutant of check_bind_cooldown: an entry past its expiry refuses the
\* request until a verify has removed it.
check_bind_cooldown_expired_blocks(d, qq_number, t) ==
    IF qq_number \in DOMAIN d.pending_bindings
    THEN LET elapsed == t - d.pending_bindings[qq_number].request_time
         IN IF elapsed < BIND_COOLDOWN \/ t > d.pending_bindings[qq_number].expire_time
            THEN <<FALSE, 0>>
            ELSE <<TRUE, 0>>
    ELSE <<TRUE, 0>>

\* check_bind_cooldown, lines 83-92: <<can_request, remaining>> at time t.
check_bind_cooldown(d, qq_number, t) ==
    IF qq_number \in DOMAIN d.pending_bindings
    THEN LET elapsed == t - d.pending_bindings[qq_number].request_time
         IN IF elapsed < BIND_COOLDOWN
            THEN <<FALSE, BIND_COOLDOWN - elapsed>>
            ELSE <<TRUE, 0>>
    ELSE <<TRUE, 0>>

\* Mutant of create_pending_binding: an entry that is there is kept.
create_pending_binding_keep_first(d, qq_number, username, code, expire, request) ==
    IF qq_number \in DOMAIN d.pending_bindings THEN d
    ELSE [d EXCEPT !.pending_bindings =
             Put(@, qq_number, [username |-> username, code |-> code,
                                expire_time |-> expire,
                                request_time |-> request])]

\* create_pending_binding, lines 101-111: the document after the block.
create_pending_binding(d, qq_number, username, code, expire_time, request_time) ==
    [d EXCEPT !.pending_bindings =
        Put(@, qq_number, [username |-> username, code |-> code,
                           expire_time |-> expire_time,
                           request_time |-> request_time])]

\* Mutants of verify_binding.  strict: whether the expiry test is > or >=;
\* the three flags: whether the entry is removed on Expired, on CodeMismatch
\* and on success.
verify_binding_variant(d, qq_number, code, t, strict, pop_expired,
                       pop_mismatch, pop_verified) ==
    IF qq_number \notin DOMAIN d.pending_bindings
    THEN [status |-> "NoPendingRequest", data |-> d, username |-> None]
    ELSE LET pending == d.pending_bindings[qq_number]
             popped == [d EXCEPT !.pending_bindings = Pop(@, qq_number)]
         IN IF (IF strict THEN t > pending.expire_time
                          ELSE t >= pending.expire_time)
            THEN [status |-> "Expired",
                  data |-> IF pop_expired THEN popped ELSE d, username |-> None]
            ELSE IF pending.code # code
            THEN [status |-> "CodeMismatch",
                  data |-> IF pop_mismatch THEN popped ELSE d, username |-> None]
            ELSE [status |-> "Verified",
                  data |-> IF pop_verified THEN popped ELSE d,
                  username |-> pending.username]

\* the entry expires at expire_time, not after it
verify_binding_ge(d, qq_number, code, t) ==
    verify_binding_variant(d, qq_number, code, t, FALSE, TRUE, FALSE, TRUE)

\* an expired entry is reported and kept
verify_binding_expired_keep(d, qq_number, code, t) ==
    verify_binding_variant(d, qq_number, code, t, TRUE, FALSE, FALSE, TRUE)

\* a wrong code consumes the entry
verify_binding_mismatch_pop(d, qq_number, code, t) ==
    verify_binding_variant(d, qq_number, code, t, TRUE, TRUE, TRUE, TRUE)

\* a verified entry is kept
verify_binding_verified_keep(d, qq_number, code, t) ==
    verify_binding_variant(d, qq_number, code, t, TRUE, TRUE, FALSE, FALSE)

\* Mutant of verify_binding: the supplied code is not compared.
verify_binding_any_code(d, qq_number, code, t) ==
    IF qq_number \notin DOMAIN d.pending_bindings
    THEN [status |-> "NoPendingRequest", data |-> d, username |-> None]
    ELSE LET pending == d.pending_bindings[qq_number]
             popped == [d EXCEPT !.pending_bindings = Pop(@, qq_number)]
         IN IF t > pending.expire_time
            THEN [status |-> "Expired", data |-> popped, username |-> None]
            ELSE [status |-> "Verified", data |-> popped,
                  username |-> pending.username]

\* verify_binding, lines 118-136: the outcome of the locked block at time t
\* and the document it leaves on disk.
verify_binding(d, qq_number, code, t) ==
    IF qq_number \notin DOMAIN d.pending_bindings
    THEN [status |-> "NoPendingRequest", data |-> d, username |-> None]
    ELSE LET pending == d.pending_bindings[qq_number]
             popped == [d EXCEPT !.pending_bindings = Pop(@, qq_number)]
         IN IF t > pending.expire_time
            THEN [status |-> "Expired", data |-> popped, username |-> None]
            ELSE IF pending.code # code
            THEN [status |-> "CodeMismatch", data |-> d, username |-> None]
            ELSE [status |-> "Verified", data |-> popped,
                  username |-> pending.username]

(* ------------------------------ actions ------------------------------- *)
\* ret is the value returned by the call that returned last, with the
\* arguments of that call.
Return(t, l, status, remaining) ==
    [thread |-> t, op |-> l.op, status |-> status, qq |-> l.qq,
     username |-> l.username, code |-> l.code, remaining |-> remaining]

Args(op, qq_number, username, code) ==
    [NoLocals EXCEPT !.op = op, !.qq = qq_number, !.username = username,
                     !.code = code]

\* A thread starts a call.  The threads are interchangeable, so the idle
\* thread of lowest number takes it.
Start(t) ==
    /\ pc[t] = "idle"
    /\ \A s \in Threads : s < t => pc[s] # "idle"
    /\ calls' = calls + 1

\* A direct call of DataManager.set_binding, lines 58-78.
SetBinding(t, qq_number, username) ==
    /\ Start(t)
    /\ data' = set_binding(data, qq_number, username)
    /\ ret' = Return(t, Args("set_binding", qq_number, username, 0), "Bound", 0)
    /\ UNCHANGED <<now, pc, locals, file, lock>>

\* _handle_bind, lines 94-97: check_bind_cooldown and the branch on its result.
BindCheckCooldown(t, qq_number, username) ==
    /\ Start(t)
    /\ LET r == check_bind_cooldown(data, qq_number, now)
           l == Args("bind", qq_number, username, 0)
       IN IF r[1]
          THEN /\ pc' = [pc EXCEPT ![t] = "cp_time"]
               /\ locals' = [locals EXCEPT ![t] = l]
               /\ UNCHANGED ret
          ELSE /\ ret' = Return(t, l, "CooldownActive", r[2])
               /\ UNCHANGED <<pc, locals>>
    /\ UNCHANGED <<data, now, file, lock>>

\* create_pending_binding, lines 96-98: the code and the two clock readings,
\* taken before the lock.
CreatePendingTimes(t, code) ==
    /\ pc[t] = "cp_time"
    /\ pc' = [pc EXCEPT ![t] = "cp_lock"]
    /\ locals' = [locals EXCEPT ![t] = [@ EXCEPT !.code = code,
                                        !.expire_time = now + VERIFICATION_TIMEOUT,
                                        !.request_time = now]]
    /\ UNCHANGED ret
    /\ UNCHANGED <<data, now, calls, file, lock>>

\* create_pending_binding, lines 100-113: the locked block and the return.
CreatePending(t) ==
    /\ pc[t] = "cp_lock"
    /\ data' = create_pending_binding(data, locals[t].qq, locals[t].username,
                                      locals[t].code, locals[t].expire_time,
                                      locals[t].request_time)
    /\ pc' = [pc EXCEPT ![t] = "idle"]
    /\ ret' = Return(t, locals[t], "CodeIssued", 0)
    /\ locals' = [locals EXCEPT ![t] = NoLocals]
    /\ UNCHANGED <<now, calls, file, lock>>

\* _handle_verify, line 132, and verify_binding, lines 117-136: the locked
\* block, with its three early returns.
Verify(t, qq_number, code) ==
    /\ Start(t)
    /\ LET r == verify_binding(data, qq_number, code, now)
           l == Args("verify", qq_number, r.username, code)
       IN /\ data' = r.data
          /\ IF r.status = "Verified"
             THEN /\ pc' = [pc EXCEPT ![t] = "vb_bind"]
                  /\ locals' = [locals EXCEPT ![t] = l]
                  /\ UNCHANGED ret
             ELSE /\ ret' = Return(t, l, r.status, 0)
                  /\ UNCHANGED <<pc, locals>>
    /\ UNCHANGED <<now, file, lock>>

\* verify_binding, lines 139-140: set_binding, called once the lock of the
\* first block is released, and the return.
VerifyBind(t) ==
    /\ pc[t] = "vb_bind"
    /\ data' = set_binding(data, locals[t].qq, locals[t].username)
    /\ pc' = [pc EXCEPT ![t] = "idle"]
    /\ ret' = Return(t, locals[t], "Success", 0)
    /\ locals' = [locals EXCEPT ![t] = NoLocals]
    /\ UNCHANGED <<now, calls, file, lock>>

\* The clock moves on to a later instant.
Tick(i) ==
    /\ i > now
    /\ now' = i
    /\ UNCHANGED ret
    /\ UNCHANGED <<data, pc, locals, calls, file, lock>>

\* No call starts once the behaviour has started n calls.
CallsLeft(n) == calls < n

\* Calls of the DataManager interface made by several threads at once.
Next ==
    \/ /\ CallsLeft(MaxCalls)
       /\ \E t \in Threads, q \in QQNumbers, u \in Usernames : SetBinding(t, q, u)
    \/ /\ CallsLeft(MaxCalls)
       /\ \E t \in Threads, q \in QQNumbers, u \in Usernames : BindCheckCooldown(t, q, u)
    \/ \E t \in Threads, c \in Codes : CreatePendingTimes(t, c)
    \/ \E t \in Threads : CreatePending(t)
    \/ /\ CallsLeft(MaxCalls)
       /\ \E t \in Threads, q \in QQNumbers, c \in SuppliedCodes : Verify(t, q, c)
    \/ \E t \in Threads : VerifyBind(t)
    \/ \E i \in Instants : Tick(i)

Spec == Init /\ [][Next]_vars

\* The commands /bind and /verify handled by several threads at once; the
\* program itself calls set_binding only from verify_binding.
NextHandlers ==
    \/ /\ CallsLeft(MaxCalls)
       /\ \E t \in Threads, q \in QQNumbers, u \in Usernames : BindCheckCooldown(t, q, u)
    \/ \E t \in Threads, c \in Codes : CreatePendingTimes(t, c)
    \/ \E t \in Threads : CreatePending(t)
    \/ /\ CallsLeft(MaxCalls)
       /\ \E t \in Threads, q \in QQNumbers, c \in SuppliedCodes : Verify(t, q, c)
    \/ \E t \in Threads : VerifyBind(t)
    \/ \E i \in Instants : Tick(i)

SpecHandlers == Init /\ [][NextHandlers]_vars

\* The program as wired: the /bind and /verify commands arrive on the one
\* thread of the websocket client (qq_bot.py, lines 308-342, 37-56), each
\* handled to its end before the next.
NextSeq ==
    \/ /\ CallsLeft(MaxSeqCalls)
       /\ \E q \in QQNumbers, u \in Usernames : BindCheckCooldown(1, q, u)
    \/ \E c \in Codes : CreatePendingTimes(1, c)
    \/ CreatePending(1)
    \/ /\ CallsLeft(MaxSeqCalls)
       /\ \E q \in QQNumbers, c \in SuppliedCodes : Verify(1, q, c)
    \/ VerifyBind(1)
    \/ \E i \in Instants : Tick(i)

SpecSeq == Init /\ [][NextSeq]_vars

(* ------------------------------- claims ------------------------------- *)
TypeOK ==
    /\ DOMAIN data.bindings \subseteq QQNumbers
    /\ DOMAIN data.user_qq_map \subseteq Usernames
    /\ DOMAIN data.pending_bindings \subseteq QQNumbers
    /\ now \in Instants
    /\ pc \in [Threads -> {"idle", "cp_time", "cp_lock", "vb_bind"}]
    /\ calls \in 0..(MaxCalls + MaxSeqCalls)

\* C1: in every persisted state the forward map bindings and the reverse map
\* user_qq_map are inverses of each other: bindings[q] = u exactly when
\* user_qq_map[u] = q.
C1_Bijection ==
    /\ \A q \in DOMAIN data.bindings :
           get_qq_by_username(data, data.bindings[q]) = q
    /\ \A u \in DOMAIN data.user_qq_map :
           get_binding(data, data.user_qq_map[u]) = u

\* C2: a set_binding(X, B) that finds X bound to another account A leaves A
\* without identity and X bound to B; one that finds B bound to another
\* identity Y leaves Y without account and B bound to X.
Rebound(X, B) ==
    LET A == get_binding(data, X)
        Y == get_qq_by_username(data, B)
    IN /\ (A # None /\ A # B) =>
            /\ get_qq_by_username(data', A) = None
            /\ get_binding(data', X) = B
       /\ (Y # None /\ Y # X) =>
            /\ get_binding(data', Y) = None
            /\ get_qq_by_username(data', B) = X

C2_RebindRemovesStalePair ==
    [][/\ \A t \in Threads, q \in QQNumbers, u \in Usernames :
              SetBinding(t, q, u) => Rebound(q, u)
       /\ \A t \in Threads :
              VerifyBind(t) => Rebound(locals[t].qq, locals[t].username)]_vars

\* C3: the cooldown check and the insertion of the pending entry are one
\* critical section: whenever a pending entry is inserted, the cooldown check
\* passes on the document it is inserted into, so no second code is issued
\* for an identity within the cooldown window of the first.
C3_CheckAndInsertAtomic ==
    [][\A t \in Threads :
          CreatePending(t) => check_bind_cooldown(data, locals[t].qq, now)[1]]_vars

\* C4: a successful verify is one atomic unit: no state between two critical
\* sections has the pending entry consumed by a successful verify while
\* lookupAccount of the identity is not yet the verified account.
C4_VerifyAtomic ==
    \A t \in Threads :
        pc[t] = "vb_bind" => get_binding(data, locals[t].qq) = locals[t].username

\* The pending entry of identity q and what the clock says about it.
HasPending(q) == q \in DOMAIN data.pending_bindings
Elapsed(q) == now - data.pending_bindings[q].request_time
PastExpiry(q) == now > data.pending_bindings[q].expire_time

\* C5: a bind request for an identity whose pending entry was requested less
\* than BIND_COOLDOWN seconds ago returns CooldownActive, issues no code and
\* leaves the document unchanged; one made BIND_COOLDOWN seconds or more
\* after the request passes the check and goes on to issue a code.
C5_Cooldown ==
    [][\A t \in Threads, q \in QQNumbers, u \in Usernames :
          (BindCheckCooldown(t, q, u) /\ HasPending(q)) =>
              IF Elapsed(q) < BIND_COOLDOWN
              THEN /\ ret'.status = "CooldownActive"
                   /\ ret'.remaining = BIND_COOLDOWN - Elapsed(q)
                   /\ pc'[t] = "idle"
                   /\ data' = data
              ELSE /\ pc'[t] = "cp_time"
                   /\ ret' = ret]_vars

\* C5 witness: a request made 59 seconds after the pending one was refused.
C5_Witness ==
    /\ ret.status = "CooldownActive"
    /\ HasPending(ret.qq)
    /\ Elapsed(ret.qq) = BIND_COOLDOWN - 1
    /\ ret.remaining = 1

\* C6 as stated: a bind request that follows a successful verify of the same
\* identity within BIND_COOLDOWN seconds of the first request is refused with
\* CooldownActive.
C6_CooldownAfterVerify ==
    [][\A u \in Usernames :
          (/\ ret.op = "verify"
           /\ ret.status = "Success"
           /\ now < BIND_COOLDOWN
           /\ BindCheckCooldown(1, ret.qq, u)) => ret'.status = "CooldownActive"]_vars

\* C6 as amended: the successful verify consumed the pending entry, so a bind
\* request that follows it passes the cooldown check, however soon after the
\* first request it is made, and goes on to issue a new code.
C6_NoCooldownAfterVerify ==
    [][\A u \in Usernames :
          (/\ ret.op = "verify"
           /\ ret.status = "Success"
           /\ BindCheckCooldown(1, ret.qq, u)) =>
              /\ pc'[1] = "cp_time"
              /\ ret' = ret
              /\ get_binding(data', ret.qq) = ret.username]_vars

\* C6 witness: within the cooldown window of the first request, the identity
\* is linked by a successful verify and its next request is past the check.
C6_Witness ==
    /\ ret.op = "verify"
    /\ ret.status = "Success"
    /\ now < BIND_COOLDOWN
    /\ pc[1] = "cp_time"
    /\ locals[1].qq = ret.qq
    /\ get_binding(data, ret.qq) = ret.username

\* The code stored for identity q.
StoredCode(q) == data.pending_bindings[q].code

\* C7: a verify that finds a pending entry, not past its expiry, with the
\* supplied code equal to the stored one, removes the entry and binds the
\* identity to the stored account: it returns Success naming that account,
\* and then lookupAccount(identity) and lookupIdentity(account) name each other.
C7_VerifySuccess ==
    [][\A t \in Threads :
          /\ \A q \in QQNumbers, c \in SuppliedCodes :
                (/\ Verify(t, q, c)
                 /\ HasPending(q)
                 /\ ~PastExpiry(q)
                 /\ c = StoredCode(q)) =>
                    /\ pc'[t] = "vb_bind"
                    /\ locals'[t].qq = q
                    /\ locals'[t].username = data.pending_bindings[q].username
                    /\ q \notin DOMAIN data'.pending_bindings
          /\ VerifyBind(t) =>
                /\ ret'.status = "Success"
                /\ ret'.qq = locals[t].qq
                /\ ret'.username = locals[t].username
                /\ get_binding(data', locals[t].qq) = locals[t].username
                /\ get_qq_by_username(data', locals[t].username) = locals[t].qq]_vars

\* C7 witness: a verify has returned Success and the two lookups agree.
C7_Witness ==
    /\ ret.op = "verify"
    /\ ret.status = "Success"
    /\ ~HasPending(ret.qq)
    /\ get_binding(data, ret.qq) = ret.username
    /\ get_qq_by_username(data, ret.username) = ret.qq

\* C8: a verify made strictly after expire_time returns Expired whatever the
\* code, removes the pending entry and touches no link; at expire_time itself
\* the correct code still verifies.
C8_Expired ==
    [][\A t \in Threads, q \in QQNumbers, c \in SuppliedCodes :
          (Verify(t, q, c) /\ HasPending(q)) =>
              IF now > data.pending_bindings[q].expire_time
              THEN /\ ret'.status = "Expired"
                   /\ ret'.qq = q
                   /\ q \notin DOMAIN data'.pending_bindings
                   /\ data'.bindings = data.bindings
                   /\ data'.user_qq_map = data.user_qq_map
                   /\ pc'[t] = "idle"
              ELSE c = StoredCode(q) => pc'[t] = "vb_bind"]_vars

\* C8 witness: a verify with an issued code has returned Expired and the
\* entry is gone.
C8_Witness ==
    /\ ret.status = "Expired"
    /\ ret.code \in Codes
    /\ ~HasPending(ret.qq)
    /\ now = VERIFICATION_TIMEOUT + 1

\* C9: a verify that returns Expired removes the pending entry, and the bind
\* request for that identity that follows it passes the cooldown check,
\* however long ago the expired request was made.
C9_RequestAfterExpired ==
    [][/\ \A q \in QQNumbers, c \in SuppliedCodes :
              (Verify(1, q, c) /\ pc'[1] = "idle" /\ ret'.status = "Expired")
                  => q \notin DOMAIN data'.pending_bindings
       /\ \A u \in Usernames :
              (ret.status = "Expired" /\ BindCheckCooldown(1, ret.qq, u)) =>
                  /\ pc'[1] = "cp_time"
                  /\ ret' = ret]_vars

\* C9 witness: the request that follows an Expired verify is past the check.
C9_Witness ==
    /\ ret.status = "Expired"
    /\ pc[1] = "cp_time"
    /\ locals[1].qq = ret.qq

\* C10: a verify before expiry with a code other than the stored one returns
\* CodeMismatch and leaves the whole document unchanged; the verify with the
\* stored code that follows wrong attempts, still before expiry, succeeds.
C10_CodeMismatch ==
    [][\A q \in QQNumbers, c \in SuppliedCodes :
          (Verify(1, q, c) /\ HasPending(q) /\ ~PastExpiry(q)) =>
              /\ c # StoredCode(q) =>
                    /\ ret'.status = "CodeMismatch"
                    /\ ret'.qq = q
                    /\ data' = data
                    /\ pc'[1] = "idle"
              /\ (c = StoredCode(q) /\ ret.status = "CodeMismatch" /\ ret.qq = q) =>
                    /\ pc'[1] = "vb_bind"
                    /\ locals'[1].username = data.pending_bindings[q].username]_vars

\* C10 witness: after a CodeMismatch the entry is still there, and the verify
\* with the stored code that follows has consumed it.
C10_Witness ==
    /\ ret.status = "CodeMismatch"
    /\ pc[1] = "vb_bind"
    /\ locals[1].qq = ret.qq
    /\ ~HasPending(ret.qq)

(* ====================================================================== *)
(* The handlers taken apart: lock, file, network calls                    *)
(* ====================================================================== *)

(* ------------------------------ domains ------------------------------- *)
\* str(data.get("group_id", "")): an event without group_id yields "".
GroupIds == {"", "20001", "20002"}

\* The preference written by /noti in a private chat.
PRIVATE == "private"

\* What _find_notification_group returns for "no group": None in the code.
PrivateChannel == "PrivateChannel"

\* The kinds of content of the file at DataManager.filepath.
\*   document     a JSON object, the value of data
\*   missing      no file
\*   truncated    opened with mode 'w' and not yet written to its end
\*   malformed    text that is not JSON
\*   undecodable  bytes that are not UTF-8 text
FileKinds == {"document", "missing", "truncated", "malformed", "undecodable"}

\* The top-level keys of the document, _ensure_file lines 25-31.
Keys == {"bindings", "user_qq_map", "notifications", "groups", "pending_bindings"}

(* ------------------------- documents and files ------------------------ *)
\* The value the code supplies for a key the document lacks:
\* data.get(k, {}), data.get("groups", []), `if k not in data: data[k] = {}`.
Default(k) == IF k = "groups" THEN << >> ELSE EmptyDict

Field(d, k) == IF k \in DOMAIN d THEN d[k] ELSE Default(k)

\* A loaded document as a critical section reads it.
Complete(d) == [k \in Keys |-> Field(d, k)]

\* The document a critical section writes: the keys it loaded and the keys
\* ks it adds when they are missing, with the values of r.
Stored(d, r, ks) == [k \in (DOMAIN d) \cup ks |-> r[k]]

\* _load, lines 33-39: json.load of the file opened as UTF-8 text.
\* JSONDecodeError and FileNotFoundError are caught and give {}; the
\* UnicodeDecodeError of bytes that are not UTF-8 is not caught.
_load(f, d) ==
    IF f = "document" THEN [error |-> None, data |-> d]
    ELSE IF f = "undecodable" THEN [error |-> "UnicodeDecodeError", data |-> EmptyDict]
    ELSE [error |-> None, data |-> EmptyDict]

\* int(s) of the chat client adapter (qq_bot_api.py lines 60, 82, 108, 130,
\* 131) raises ValueError for a string that is not a number.
int_raises(s) == s \notin (QQNumbers \cup GroupIds) \ {""}

(* ---------------- DataManager: the other critical sections ------------ *)
\* `x in list`
In(seq, x) == \E i \in 1..Len(seq) : seq[i] = x

\* list.remove(x): the first occurrence goes.
Remove(seq, x) ==
    LET i == CHOOSE j \in 1..Len(seq) :
                 seq[j] = x /\ \A k \in 1..(j - 1) : seq[k] # x
    IN SubSeq(seq, 1, i - 1) \o SubSeq(seq, i + 1, Len(seq))

\* set_notification_group, lines 145-149.
set_notification_group(d, qq_number, group_id) ==
    [d EXCEPT !.notifications = Put(@, qq_number, group_id)]

\* get_notification_group, lines 153-155.
get_notification_group(d, qq_number) == Get(d.notifications, qq_number)

\* add_group, lines 160-165.
add_group(d, group_id) ==
    IF In(d.groups, group_id) THEN d
    ELSE [d EXCEPT !.groups = Append(@, group_id)]

\* Mutant of remove_group: the preferences that name the group go with it.
remove_group_clears_preference(d, group_id) ==
    IF In(d.groups, group_id)
    THEN [d EXCEPT !.groups = Remove(@, group_id),
                   !.notifications =
                       [q \in {x \in DOMAIN @ : @[x] # group_id} |-> @[q]]]
    ELSE d

\* Mutant of remove_group: the group stays in the list.
remove_group_keeps(d, group_id) == d

\* remove_group, lines 170-175.
remove_group(d, group_id) ==
    IF In(d.groups, group_id)
    THEN [d EXCEPT !.groups = Remove(@, group_id)]
    ELSE d

\* get_groups, lines 179-181.
get_groups(d) == d.groups

(* --------------------- a handler between its steps -------------------- *)
\* The local state of a handler: its arguments, what it has read, and what
\* it does next: block is the critical section it is about to enter or is
\* in, net the network call it is about to make.
NoFrame ==
    [op |-> None, qq |-> None, username |-> None, code |-> 0, group |-> None,
     block |-> None, net |-> None, clock |-> 0,
     loaded |-> EmptyDict, expire_time |-> 0, request_time |-> 0,
     status |-> None, remaining |-> 0, error |-> None,
     preferred |-> None, groups |-> << >>, scan |-> 0, queries |-> << >>,
     target |-> None]

ToBlock(l, b) == [l EXCEPT !.block = b, !.net = None]

ToNet(l, n) == [l EXCEPT !.block = None, !.net = n]

Done(l) == [l EXCEPT !.block = None, !.net = None]

Raise(l, e) == [l EXCEPT !.block = None, !.net = None, !.error = e]

\* The message of a /noti handler goes to the group or to the private chat.
Reply(l) == IF l.op = "noti_group" THEN "send_group_message"
            ELSE "send_private_message"

\* Mutant of handle_noti: the preference is stored without asking whether
\* the identity is linked.
handle_noti_unchecked(l, username) == ToBlock(l, "set_notification_group")

\* _handle_noti and _handle_noti_private, qq_bot.py lines 138-143 and
\* 149-154: the handler after get_binding has returned username.
handle_noti(l, username) ==
    IF Truthy(username)
    THEN ToBlock(l, "set_notification_group")
    ELSE ToNet([l EXCEPT !.status = "NotLinked"], Reply(l))

\* Mutant of find_preferred: "private" is taken for the name of a group.
find_preferred_no_sentinel(l, preferred) ==
    LET l2 == [l EXCEPT !.preferred = preferred]
    IN IF Truthy(preferred)
       THEN ToNet([l2 EXCEPT !.group = preferred], "is_user_in_group")
       ELSE ToBlock(l2, "get_groups")

\* _find_notification_group, qq_bot.py lines 260-270: the resolution after
\* get_notification_group has returned preferred.
find_preferred(l, preferred) ==
    LET l2 == [l EXCEPT !.preferred = preferred]
    IN IF preferred = PRIVATE
       THEN ToNet([l2 EXCEPT !.target = PrivateChannel], "send_private_message")
       ELSE IF Truthy(preferred)
       THEN ToNet([l2 EXCEPT !.group = preferred], "is_user_in_group")
       ELSE ToBlock(l2, "get_groups")

\* Mutant of find_roster: the scan starts at the end of the roster.
find_roster_from_end(l, roster) ==
    LET l2 == [l EXCEPT !.groups = roster, !.scan = Len(roster)]
    IN IF roster = << >>
       THEN ToNet([l2 EXCEPT !.target = PrivateChannel], "send_private_message")
       ELSE ToNet([l2 EXCEPT !.group = roster[Len(roster)]], "is_user_in_group")

\* _find_notification_group, qq_bot.py lines 271-275: the resolution after
\* get_groups has returned the roster.
find_roster(l, roster) ==
    LET l2 == [l EXCEPT !.groups = roster, !.scan = 1]
    IN IF roster = << >>
       THEN ToNet([l2 EXCEPT !.target = PrivateChannel], "send_private_message")
       ELSE ToNet([l2 EXCEPT !.group = roster[1]], "is_user_in_group")

\* Mutant of find_answer: when every group has said no, the first group of
\* the roster is returned.
find_answer_first_group(l, answer) ==
    LET l2 == [l EXCEPT !.queries = Append(@, l.group)]
    IN IF answer
       THEN ToNet([l2 EXCEPT !.target = l.group], "send_group_at_message")
       ELSE IF l.scan = 0
       THEN ToBlock(l2, "get_groups")
       ELSE IF l.scan < Len(l.groups)
       THEN ToNet([l2 EXCEPT !.scan = l.scan + 1,
                             !.group = l.groups[l.scan + 1]],
                  "is_user_in_group")
       ELSE ToNet([l2 EXCEPT !.target = l.groups[1]], "send_group_at_message")

\* Mutant of find_answer: membership of the preferred group is not enough,
\* the roster is scanned all the same.
find_answer_scans_anyway(l, answer) ==
    LET l2 == [l EXCEPT !.queries = Append(@, l.group)]
    IN IF l.scan = 0
       THEN ToBlock(l2, "get_groups")
       ELSE IF answer
       THEN ToNet([l2 EXCEPT !.target = l.group], "send_group_at_message")
       ELSE IF l.scan < Len(l.groups)
       THEN ToNet([l2 EXCEPT !.scan = l.scan + 1,
                             !.group = l.groups[l.scan + 1]],
                  "is_user_in_group")
       ELSE ToNet([l2 EXCEPT !.target = PrivateChannel], "send_private_message")

\* _find_notification_group, qq_bot.py lines 267-275: the resolution after
\* is_user_in_group has answered for l.group, the preferred group when
\* l.scan is 0 and the group at l.scan of the roster otherwise.
find_answer_on_no(l, answer) ==
    LET l2 == [l EXCEPT !.queries = Append(@, l.group)]
    IN ToNet([l2 EXCEPT !.target = l.group], "send_group_at_message")

find_answer(l, answer) ==
    LET l2 == [l EXCEPT !.queries = Append(@, l.group)]
    IN IF answer
       THEN ToNet([l2 EXCEPT !.target = l.group], "send_group_at_message")
       ELSE IF l.scan = 0
       THEN ToBlock(l2, "get_groups")
       ELSE IF l.scan < Len(l.groups)
       THEN ToNet([l2 EXCEPT !.scan = l.scan + 1,
                             !.group = l.groups[l.scan + 1]],
                  "is_user_in_group")
       ELSE ToNet([l2 EXCEPT !.target = PrivateChannel], "send_private_message")

\* _sync_group_list, qq_bot.py lines 396-399: the loop over the groups the
\* chat client lists, from position i on; an entry without group_id is
\* skipped, every other one goes to add_group.
sync_next(l, i) ==
    LET rest == {j \in i..Len(l.groups) : l.groups[j] # ""}
    IN IF rest = {}
       THEN Done([l EXCEPT !.status = "Synced"])
       ELSE LET j == CHOOSE j \in rest : \A k \in rest : j <= k
            IN ToBlock([l EXCEPT !.scan = j, !.group = l.groups[j]], "add_group")

\* The handler after add_group has returned: on_group_join is done, the
\* loop of _sync_group_list goes on.
after_add_group(l) ==
    IF l.op = "sync" THEN sync_next(l, l.scan + 1)
    ELSE Done([l EXCEPT !.status = "Joined"])

\* The critical section l.block on the document l.loaded, read at the
\* instant l.clock: whether it calls _save, the document it saves, and the
\* handler after it.
Section(l) ==
    LET d == Complete(l.loaded)
        Reads(l2) == [write |-> FALSE, data |-> l.loaded, l |-> l2]
        Writes(r, ks, l2) ==
            [write |-> TRUE, data |-> Stored(l.loaded, r, ks), l |-> l2]
    IN CASE l.block = "check_bind_cooldown" ->
              LET r == check_bind_cooldown(d, l.qq, l.clock)
              IN IF r[1]
                 THEN Reads(ToBlock([l EXCEPT !.code = CHOOSE c \in Codes : TRUE,
                                              !.expire_time = l.clock + VERIFICATION_TIMEOUT,
                                              !.request_time = l.clock],
                                    "create_pending_binding"))
                 ELSE Reads(ToNet([l EXCEPT !.status = "CooldownActive",
                                            !.remaining = r[2]],
                                  "send_private_message"))
         [] l.block = "create_pending_binding" ->
              Writes(create_pending_binding(d, l.qq, l.username, l.code,
                                            l.expire_time, l.request_time),
                     {"pending_bindings"},
                     ToNet([l EXCEPT !.status = "CodeIssued"], "post_bind"))
         [] l.block = "verify_binding" ->
              LET r == verify_binding(d, l.qq, l.code, l.clock)
              IN IF r.status = "Verified"
                 THEN Writes(r.data, {},
                             ToBlock([l EXCEPT !.username = r.username], "set_binding"))
                 ELSE IF r.status = "Expired"
                 THEN Writes(r.data, {},
                             ToNet([l EXCEPT !.status = "Expired"], "send_private_message"))
                 ELSE Reads(ToNet([l EXCEPT !.status = r.status], "send_private_message"))
         [] l.block = "set_binding" ->
              Writes(set_binding(d, l.qq, l.username), {"bindings", "user_qq_map"},
                     ToNet([l EXCEPT !.status = "Success"], "send_private_message"))
         [] l.block = "get_binding" ->
              Reads(handle_noti(l, get_binding(d, l.qq)))
         [] l.block = "set_notification_group" ->
              Writes(set_notification_group(d, l.qq, l.group), {"notifications"},
                     ToNet([l EXCEPT !.status = "PreferenceSet"], Reply(l)))
         [] l.block = "add_group" ->
              IF In(d.groups, l.group)
              THEN Reads(after_add_group(l))
              ELSE Writes(add_group(d, l.group), {"groups"}, after_add_group(l))
         [] l.block = "remove_group" ->
              IF In(d.groups, l.group)
              THEN Writes(remove_group(d, l.group), {"groups"},
                          Done([l EXCEPT !.status = "Left"]))
              ELSE Reads(Done([l EXCEPT !.status = "Left"]))
         [] l.block = "get_qq_by_username" ->
              LET q == get_qq_by_username(d, l.username)
              IN IF Truthy(q)
                 THEN Reads(ToBlock([l EXCEPT !.qq = q], "get_notification_group"))
                 ELSE Reads(Done([l EXCEPT !.status = "Skipped"]))
         [] l.block = "get_notification_group" ->
              Reads(find_preferred(l, get_notification_group(d, l.qq)))
         [] l.block = "get_groups" ->
              Reads(find_roster(l, get_groups(d)))

\* The network call l.net and the handler after it; answer is what the chat
\* client says to a membership query.
NetStep(l, answer) ==
    CASE l.net = "is_user_in_group" ->
            IF int_raises(l.group) \/ int_raises(l.qq)
            THEN Raise(l, "ValueError")
            ELSE find_answer(l, answer)
      [] l.net = "post_bind" -> ToNet(l, "send_private_message")
      [] l.net = "send_private_message" ->
            IF int_raises(l.qq) THEN Raise(l, "ValueError")
            ELSE Done([l EXCEPT !.status = IF l.op = "notify" THEN "Notified" ELSE @])
      [] l.net = "send_group_message" ->
            IF int_raises(l.group) THEN Raise(l, "ValueError") ELSE Done(l)
      [] l.net = "send_group_at_message" ->
            IF int_raises(l.target) THEN Raise(l, "ValueError")
            ELSE Done([l EXCEPT !.status = "Notified"])

\* The network call l.net fails, and the handler after it.  _call_api
\* (qq_bot_api.py lines 33-45) turns a failed request into a result that is
\* not "ok": a send returns False, which no handler looks at, and
\* is_user_in_group returns False.  A post to the account service that fails
\* or is refused (qq_bot.py lines 122-128) is reported in a private message.
NetFailStep(l) ==
    CASE l.net = "is_user_in_group" ->
            IF int_raises(l.group) \/ int_raises(l.qq)
            THEN Raise(l, "ValueError")
            ELSE find_answer(l, FALSE)
      [] l.net = "post_bind" ->
            ToNet([l EXCEPT !.status = "DeliveryFailed"], "send_private_message")
      [] l.net = "send_private_message" ->
            IF int_raises(l.qq) THEN Raise(l, "ValueError") ELSE Done(l)
      [] l.net = "send_group_message" ->
            IF int_raises(l.group) THEN Raise(l, "ValueError") ELSE Done(l)
      [] l.net = "send_group_at_message" ->
            IF int_raises(l.target) THEN Raise(l, "ValueError") ELSE Done(l)

(* ------------------------------ the lock ------------------------------ *)
\* Mutant of CanAcquire: the lock excludes nobody.
CanAcquire_always(lk) == TRUE

\* threading.Lock, line 19: acquire succeeds when no thread holds the lock.
CanAcquire(lk) == lk = 0

\* Mutant of release: the lock stays with the thread that leaves the block.
release_never(lk) == lk

\* The end of a `with self.lock:` block, by return or by exception.
release(lk) == 0

(* ------------------------------ actions ------------------------------- *)
\* The value a finished handler leaves behind: what it decided, what it
\* read on the way and the exception that ended it, if one did.
Result(t, l) ==
    [thread |-> t, op |-> l.op, status |-> l.status, qq |-> l.qq,
     username |-> l.username, code |-> l.code, remaining |-> l.remaining,
     group |-> l.group, preferred |-> l.preferred, groups |-> l.groups,
     scan |-> l.scan, queries |-> l.queries, target |-> l.target,
     error |-> l.error]

\* Thread t goes on as the handler state l says: into the next critical
\* section, to the next network call, or back to the event loop.
Proceed(t, l) ==
    IF l.block # None
    THEN /\ pc' = [pc EXCEPT ![t] = "enter"]
         /\ locals' = [locals EXCEPT ![t] = l]
         /\ UNCHANGED ret
    ELSE IF l.net # None
    THEN /\ pc' = [pc EXCEPT ![t] = "net"]
         /\ locals' = [locals EXCEPT ![t] = l]
         /\ UNCHANGED ret
    ELSE /\ pc' = [pc EXCEPT ![t] = "idle"]
         /\ locals' = [locals EXCEPT ![t] = NoLocals]
         /\ ret' = Result(t, l)

\* A handler is called with the state l and is about to enter its first
\* critical section.
Call(t, l) ==
    /\ Start(t)
    /\ pc' = [pc EXCEPT ![t] = "enter"]
    /\ locals' = [locals EXCEPT ![t] = l]
    /\ UNCHANGED <<data, now, ret, file, lock>>

\* _handle_bind, qq_bot.py lines 89-128.
HandleBind(t, qq_number, username) ==
    Call(t, [NoFrame EXCEPT !.op = "bind", !.qq = qq_number,
                            !.username = username,
                            !.block = "check_bind_cooldown"])

\* _handle_verify, qq_bot.py lines 130-133.
HandleVerify(t, qq_number, code) ==
    Call(t, [NoFrame EXCEPT !.op = "verify", !.qq = qq_number, !.code = code,
                            !.block = "verify_binding"])

\* _handle_noti, qq_bot.py lines 135-144: /noti in a group.
HandleNoti(t, group_id, qq_number) ==
    Call(t, [NoFrame EXCEPT !.op = "noti_group", !.qq = qq_number,
                            !.group = group_id, !.block = "get_binding"])

\* _handle_noti_private, qq_bot.py lines 146-155: /noti in a private chat.
HandleNotiPrivate(t, qq_number) ==
    Call(t, [NoFrame EXCEPT !.op = "noti_private", !.qq = qq_number,
                            !.group = PRIVATE, !.block = "get_binding"])

\* on_group_join, qq_bot.py lines 477-482.
GroupJoin(t, group_id) ==
    Call(t, [NoFrame EXCEPT !.op = "join", !.group = group_id,
                            !.block = "add_group"])

\* on_group_leave, qq_bot.py lines 484-487.
GroupLeave(t, group_id) ==
    Call(t, [NoFrame EXCEPT !.op = "leave", !.group = group_id,
                            !.block = "remove_group"])

\* _on_open and _sync_group_list, qq_bot.py lines 291-297 and 392-402: the
\* chat client has listed the groups the bot is in.
Sync(t, groups) ==
    /\ Start(t)
    /\ Proceed(t, sync_next([NoFrame EXCEPT !.op = "sync", !.groups = groups], 1))
    /\ UNCHANGED <<data, now, file, lock>>

\* _handle_submission_approved and _handle_submission_rejected, qq_bot.py
\* lines 196-250: the webhook for an account.
Notify(t, username) ==
    Call(t, [NoFrame EXCEPT !.op = "notify", !.username = username,
                            !.block = "get_qq_by_username"])

\* `with self.lock:` and `data = self._load()`: the thread takes the lock and
\* reads the file.  A load that raises ends the block and the handler.
Enter(t) ==
    /\ pc[t] = "enter"
    /\ CanAcquire(lock)
    /\ LET r == _load(file, data)
       IN IF r.error # None
          THEN /\ lock' = release(t)
               /\ Proceed(t, Raise(locals[t], r.error))
          ELSE /\ lock' = t
               /\ pc' = [pc EXCEPT ![t] = "locked"]
               /\ locals' = [locals EXCEPT ![t] = [@ EXCEPT !.loaded = r.data,
                                                           !.clock = now]]
               /\ UNCHANGED ret
    /\ UNCHANGED <<data, now, calls, file>>

\* _save, line 43: open(filepath, 'w') empties the file.
Truncate(t) ==
    /\ pc[t] = "locked"
    /\ Section(locals[t]).write
    /\ file' = "truncated"
    /\ data' = EmptyDict
    /\ pc' = [pc EXCEPT ![t] = "dump"]
    /\ UNCHANGED <<now, locals, ret, calls, lock>>

\* The end of a critical section: json.dump (line 44) completes the file of
\* a block that saves, the lock is released, and the handler goes on.
Leave(t) ==
    /\ \/ pc[t] = "dump"
       \/ pc[t] = "locked" /\ ~Section(locals[t]).write
    /\ LET r == Section(locals[t])
       IN /\ IF r.write
             THEN file' = "document" /\ data' = r.data
             ELSE UNCHANGED <<file, data>>
          /\ Proceed(t, [r.l EXCEPT !.loaded = EmptyDict])
    /\ lock' = release(lock)
    /\ UNCHANGED <<now, calls>>

\* A call to the chat client or to the account service returns.
Net(t, answer) ==
    /\ pc[t] = "net"
    /\ Proceed(t, NetStep(locals[t], answer))
    /\ UNCHANGED <<data, now, calls, file, lock>>

\* Mutant of NetFail: a code that could not be delivered is taken back.
NetFail_rollback(t) ==
    /\ pc[t] = "net"
    /\ Proceed(t, NetFailStep(locals[t]))
    /\ data' = IF locals[t].net = "post_bind" /\ "pending_bindings" \in DOMAIN data
               THEN [data EXCEPT !.pending_bindings = Pop(@, locals[t].qq)]
               ELSE data
    /\ UNCHANGED <<now, calls, file, lock>>

\* A call to the chat client or to the account service fails.
NetFail(t) ==
    /\ pc[t] = "net"
    /\ Proceed(t, NetFailStep(locals[t]))
    /\ UNCHANGED <<data, now, calls, file, lock>>

\* The process dies: its threads and its lock are gone, the file stays as
\* it is.
Crash ==
    /\ \E t \in Threads : pc[t] # "dead"
    /\ pc' = [t \in Threads |-> "dead"]
    /\ locals' = [t \in Threads |-> NoLocals]
    /\ lock' = 0
    /\ calls' = calls + 1
    /\ UNCHANGED <<data, now, ret, file>>

\* The process is started again: DataManager.__init__ and _ensure_file,
\* lines 17-31, write the default document when there is no file.
Restart ==
    /\ \A t \in Threads : pc[t] = "dead"
    /\ pc' = [t \in Threads |-> "idle"]
    /\ IF file = "missing"
       THEN file' = "document" /\ data' = DefaultDocument
       ELSE UNCHANGED <<file, data>>
    /\ UNCHANGED <<now, locals, ret, calls, lock>>

\* The file is removed from outside the process, between two critical
\* sections.
Unlink ==
    /\ file = "document"
    /\ lock = 0
    /\ file' = "missing"
    /\ data' = EmptyDict
    /\ calls' = calls + 1
    /\ UNCHANGED <<now, pc, locals, ret, lock>>

(* --------------------------- specifications --------------------------- *)
\* Rosters the joins and leaves of the bot produce: add_group keeps the
\* list free of repetitions.
Rosters ==
    {<< >>} \cup {<<g>> : g \in GroupIds}
            \cup {<<g, h>> : <<g, h>> \in {x \in GroupIds \X GroupIds : x[1] # x[2]}}

\* The documents the webhook finds: the identity 10001 linked to alice or
\* nobody linked, 10001 with no preference or with one written by /noti, and
\* a roster.
Preferences == {PRIVATE} \cup GroupIds

RouteDocuments ==
    {[DefaultDocument EXCEPT !.bindings = b, !.user_qq_map = m,
                             !.notifications = n, !.groups = g] :
        <<b, m>> \in {<<EmptyDict, EmptyDict>>,
                      <<Put(EmptyDict, "10001", "alice"),
                        Put(EmptyDict, "alice", "10001")>>},
        n \in {EmptyDict} \cup {Put(EmptyDict, "10001", x) : x \in Preferences},
        g \in Rosters}

InitRoute ==
    /\ data \in RouteDocuments
    /\ now = 0
    /\ pc = [t \in Threads |-> "idle"]
    /\ locals = [t \in Threads |-> NoLocals]
    /\ ret = NoRet
    /\ calls = 0
    /\ file = "document"
    /\ lock = 0

\* calls started in one behaviour of the /noti, roster and webhook handlers
MaxRouteCalls == 1

\* The handlers of /noti, of the bot joining and leaving groups, and of the
\* webhook, on the threads of the websocket client and the HTTP server.
NextRoute ==
    \/ /\ CallsLeft(MaxRouteCalls)
       /\ \E t \in Threads, g \in GroupIds, q \in QQNumbers : HandleNoti(t, g, q)
    \/ /\ CallsLeft(MaxRouteCalls)
       /\ \E t \in Threads, q \in QQNumbers : HandleNotiPrivate(t, q)
    \/ /\ CallsLeft(MaxRouteCalls)
       /\ \E t \in Threads, g \in GroupIds : GroupJoin(t, g)
    \/ /\ CallsLeft(MaxRouteCalls)
       /\ \E t \in Threads, g \in GroupIds : GroupLeave(t, g)
    \/ /\ CallsLeft(MaxRouteCalls)
       /\ \E t \in Threads, u \in Usernames : Notify(t, u)
    \/ \E t \in Threads : Enter(t)
    \/ \E t \in Threads : Truncate(t)
    \/ \E t \in Threads : Leave(t)
    \/ \E t \in Threads, answer \in BOOLEAN : Net(t, answer)

SpecRoute == InitRoute /\ [][NextRoute]_vars

\* The documents the store starts from: the default one, one with a
\* pending request of 10001 for alice made at instant 0, and one in which
\* 10001 is linked to alice and the bot is in group 20001.
PendingDocument ==
    create_pending_binding(DefaultDocument, "10001", "alice",
                           CHOOSE c \in Codes : TRUE, VERIFICATION_TIMEOUT, 0)

LinkedDocument ==
    add_group(set_binding(DefaultDocument, "10001", "alice"), "20001")

StoreDocuments == {DefaultDocument, PendingDocument, LinkedDocument}

\* DataManager is constructed on a file that holds a document, or on one
\* left behind with content that is not a document; _ensure_file leaves a
\* file that exists as it is.
InitStore ==
    /\ file \in {"document", "malformed", "undecodable"}
    /\ data \in IF file = "document" THEN StoreDocuments ELSE {EmptyDict}
    /\ now = 0
    /\ pc = [t \in Threads |-> "idle"]
    /\ locals = [t \in Threads |-> NoLocals]
    /\ ret = NoRet
    /\ calls = 0
    /\ lock = 0

\* calls, crashes and removals of the file in one behaviour of the store
MaxStoreCalls == 2

\* Every handler that uses the store, on any thread, with the process
\* dying and starting again and the file removed under it.
NextStore ==
    \/ /\ CallsLeft(MaxStoreCalls)
       /\ \E t \in Threads, q \in QQNumbers, u \in Usernames : HandleBind(t, q, u)
    \/ /\ CallsLeft(MaxStoreCalls)
       /\ \E t \in Threads, q \in QQNumbers, c \in SuppliedCodes : HandleVerify(t, q, c)
    \/ /\ CallsLeft(MaxStoreCalls)
       /\ \E t \in Threads, q \in QQNumbers : HandleNotiPrivate(t, q)
    \/ /\ CallsLeft(MaxStoreCalls)
       /\ \E t \in Threads, g \in GroupIds : GroupJoin(t, g)
    \/ /\ CallsLeft(MaxStoreCalls)
       /\ \E t \in Threads, g \in GroupIds : GroupLeave(t, g)
    \/ /\ CallsLeft(MaxStoreCalls)
       /\ \E t \in Threads, u \in Usernames : Notify(t, u)
    \/ \E t \in Threads : Enter(t)
    \/ \E t \in Threads : Truncate(t)
    \/ \E t \in Threads : Leave(t)
    \/ \E t \in Threads, answer \in BOOLEAN : Net(t, answer)
    \/ CallsLeft(MaxStoreCalls) /\ Crash
    \/ Restart
    \/ CallsLeft(MaxStoreCalls) /\ Unlink

SpecStore == InitStore /\ [][NextStore]_vars

(* -------------------------- claims: routing --------------------------- *)
\* Thread t is inside the handler op.
Running(t, op) == pc[t] \notin {"idle", "dead"} /\ locals[t].op = op

\* Thread t leaves the critical section b.
Leaves(t, b) == Leave(t) /\ locals[t].block = b

\* is_user_in_group answers thread t, for the preferred group (at = 0) or
\* for a group of the roster (at = 1).
Answers(t, answer, at) ==
    /\ Net(t, answer)
    /\ locals[t].net = "is_user_in_group"
    /\ ~int_raises(locals[t].group)
    /\ IF at = 0 THEN locals[t].scan = 0 ELSE locals[t].scan >= 1

\* C11: a resolution that finds the preference "private" stored for the
\* identity returns PrivateChannel, whatever the roster, and makes no
\* membership query: it goes from get_notification_group to the private
\* message without reading the roster.
C11_PrivateSentinel ==
    /\ [][\A t \in Threads :
             (/\ Leaves(t, "get_notification_group")
              /\ get_notification_group(Complete(data), locals[t].qq) = PRIVATE) =>
                 /\ pc'[t] = "net"
                 /\ locals'[t].net = "send_private_message"
                 /\ locals'[t].target = PrivateChannel
                 /\ locals'[t].queries = << >>]_vars
    /\ [](/\ \A t \in Threads :
                (Running(t, "notify") /\ locals[t].preferred = PRIVATE) =>
                    /\ locals[t].target = PrivateChannel
                    /\ locals[t].queries = << >>
                    /\ locals[t].groups = << >>
          /\ (ret.op = "notify" /\ ret.preferred = PRIVATE) =>
                /\ ret.target = PrivateChannel
                /\ ret.queries = << >>
                /\ ret.status = "Notified")

\* C11 witness: a notification has gone to the private chat of an identity
\* with preference "private" while the roster held two groups.
C11_Witness ==
    /\ ret.op = "notify"
    /\ ret.status = "Notified"
    /\ ret.preferred = PRIVATE
    /\ ret.target = PrivateChannel
    /\ ret.queries = << >>
    /\ Len(data.groups) = 2

\* C12: a resolution that finds a group G stored as the preference asks
\* whether the identity is in G, and when the answer is yes it returns G:
\* G is the only group queried and the roster is not read, whatever groups it
\* lists before G.
C12_PreferredGroup ==
    /\ [][\A t \in Threads :
             /\ (/\ Leaves(t, "get_notification_group")
                 /\ get_notification_group(Complete(data), locals[t].qq)
                        \in GroupIds \ {""}) =>
                    /\ pc'[t] = "net"
                    /\ locals'[t].net = "is_user_in_group"
                    /\ locals'[t].group =
                           get_notification_group(Complete(data), locals[t].qq)
                    /\ locals'[t].scan = 0
             /\ Answers(t, TRUE, 0) =>
                    /\ pc'[t] = "net"
                    /\ locals'[t].net = "send_group_at_message"
                    /\ locals'[t].target = locals[t].preferred
                    /\ locals'[t].queries = <<locals[t].preferred>>
                    /\ locals'[t].groups = << >>]_vars
    /\ []((/\ ret.op = "notify"
            /\ ret.scan = 0
            /\ ret.target \in GroupIds) =>
               /\ ret.target = ret.preferred
               /\ ret.queries = <<ret.preferred>>
               /\ ret.groups = << >>
               /\ ret.status = "Notified")

\* C12 witness: the notification has gone to the preferred group 20002 after
\* one query, with 20001 before 20002 in the roster.
C12_Witness ==
    /\ ret.op = "notify"
    /\ ret.status = "Notified"
    /\ ret.preferred = "20002"
    /\ ret.target = "20002"
    /\ ret.queries = <<"20002">>
    /\ data.groups = <<"20001", "20002">>

\* The queries a finished resolution r made during the scan of the roster:
\* all of them but the one for the preferred group.
ScanQueries(r) ==
    IF Truthy(r.preferred) /\ r.preferred # PRIVATE THEN Tail(r.queries)
    ELSE r.queries

\* C13: a resolution that finds no preference stored, or whose query for the
\* preferred group is answered no, reads the roster and queries its groups in
\* stored order from the first; the first group whose query is answered yes
\* is returned and no group after it is queried.
C13_RosterScan ==
    /\ [][\A t \in Threads :
             /\ (/\ Leaves(t, "get_notification_group")
                 /\ ~Truthy(get_notification_group(Complete(data), locals[t].qq))) =>
                    /\ pc'[t] = "enter"
                    /\ locals'[t].block = "get_groups"
                    /\ locals'[t].queries = << >>
             /\ Answers(t, FALSE, 0) =>
                    /\ pc'[t] = "enter"
                    /\ locals'[t].block = "get_groups"
             /\ (Leaves(t, "get_groups") /\ Complete(data).groups # << >>) =>
                    /\ pc'[t] = "net"
                    /\ locals'[t].net = "is_user_in_group"
                    /\ locals'[t].groups = Complete(data).groups
                    /\ locals'[t].scan = 1
                    /\ locals'[t].group = Complete(data).groups[1]
             /\ Answers(t, TRUE, 1) =>
                    /\ pc'[t] = "net"
                    /\ locals'[t].net = "send_group_at_message"
                    /\ locals'[t].target = locals[t].groups[locals[t].scan]
                    /\ locals'[t].queries = Append(locals[t].queries, locals'[t].target)
             /\ (Answers(t, FALSE, 1) /\ locals[t].scan < Len(locals[t].groups)) =>
                    /\ pc'[t] = "net"
                    /\ locals'[t].net = "is_user_in_group"
                    /\ locals'[t].scan = locals[t].scan + 1
                    /\ locals'[t].group = locals[t].groups[locals[t].scan + 1]]_vars
    /\ []((/\ ret.op = "notify"
           /\ ret.scan >= 1
           /\ ret.target \in GroupIds) =>
              /\ ret.target = ret.groups[ret.scan]
              /\ ScanQueries(ret) = SubSeq(ret.groups, 1, ret.scan)
              /\ ret.status = "Notified")

\* C13 witness: with preference 20001 and roster 20001, 20002 the identity
\* was found in 20002 only, and the notification has gone to 20002.
C13_Witness ==
    /\ ret.op = "notify"
    /\ ret.status = "Notified"
    /\ ret.preferred = "20001"
    /\ ret.groups = <<"20001", "20002">>
    /\ ret.queries = <<"20001", "20001", "20002">>
    /\ ret.target = "20002"

\* C14: a resolution whose preference is absent, or a group that answers no,
\* and whose every roster group answers no, the empty roster included,
\* returns PrivateChannel.
C14_Fallback ==
    /\ [][\A t \in Threads :
             /\ (Leaves(t, "get_groups") /\ Complete(data).groups = << >>) =>
                    /\ pc'[t] = "net"
                    /\ locals'[t].net = "send_private_message"
                    /\ locals'[t].target = PrivateChannel
             /\ (Answers(t, FALSE, 1) /\ locals[t].scan = Len(locals[t].groups)) =>
                    /\ pc'[t] = "net"
                    /\ locals'[t].net = "send_private_message"
                    /\ locals'[t].target = PrivateChannel]_vars
    /\ []((/\ ret.op = "notify"
           /\ ret.status = "Notified"
           /\ ret.preferred # PRIVATE
           /\ ret.target \notin GroupIds) =>
              /\ ret.target = PrivateChannel
              /\ ScanQueries(ret) = ret.groups)

\* C14 witness: no preference, every group of a roster of two has said no,
\* and the notification has gone to the private chat.
C14_Witness ==
    /\ ret.op = "notify"
    /\ ret.status = "Notified"
    /\ ret.preferred = None
    /\ ret.groups = <<"20001", "20002">>
    /\ ret.queries = ret.groups
    /\ ret.target = PrivateChannel

\* C15: a /noti from an identity without a linked account is answered with
\* NotLinked and writes nothing; from a linked identity it stores "private"
\* (private chat) or the group's id (group chat) as the preference of that
\* identity, in place of the one stored before, and changes no other
\* preference.
C15_SetPreference ==
    /\ [][\A t \in Threads :
             /\ Leaves(t, "get_binding") =>
                    /\ data' = data
                    /\ IF get_binding(Complete(data), locals[t].qq) = None
                       THEN /\ pc'[t] = "net"
                            /\ locals'[t].status = "NotLinked"
                            /\ locals'[t].net = IF locals[t].op = "noti_group"
                                                THEN "send_group_message"
                                                ELSE "send_private_message"
                       ELSE /\ pc'[t] = "enter"
                            /\ locals'[t].block = "set_notification_group"
             /\ Leaves(t, "set_notification_group") =>
                    /\ locals[t].op = "noti_private" => locals[t].group = PRIVATE
                    /\ locals[t].op = "noti_group" => locals[t].group \in GroupIds
                    /\ Complete(data').notifications =
                           Put(Complete(locals[t].loaded).notifications,
                               locals[t].qq, locals[t].group)
                    /\ locals'[t].status = "PreferenceSet"]_vars
    /\ [](\A t \in Threads :
              (Running(t, "noti_group") \/ Running(t, "noti_private")) =>
                  (locals[t].status = "NotLinked" => pc[t] = "net"))

\* C15 witness: a /noti in group 20001 from the unlinked identity 10001 has
\* been answered with NotLinked, and no preference is stored for 10001.
C15_Witness ==
    /\ ret.op = "noti_group"
    /\ ret.status = "NotLinked"
    /\ ret.qq = "10001"
    /\ ret.group = "20001"
    /\ ret.error = None
    /\ get_binding(data, ret.qq) = None
    /\ get_notification_group(data, ret.qq) = None

(* --------------------------- claims: store ---------------------------- *)
\* C16: the file is never seen half-written: it is without its end only
\* while the thread that writes it is inside _save, so a process that dies
\* during a save leaves the complete document of before or the complete new
\* one.
C16_NoHalfWrittenFile ==
    file = "truncated" => \E t \in Threads : pc[t] = "dump"

\* What a reader of the file gets now.
OnDisk == _load(file, data).data

\* C17: the critical sections of concurrent handlers are serialized: each
\* one decides and writes on the document that is on disk when it does so,
\* the one left by the section before it, so the file is always the result
\* of applying the finished sections one after the other and no update is
\* lost.
C17_Serialized ==
    /\ [][\A t \in Threads :
             /\ (Truncate(t) \/ (Leave(t) /\ pc[t] = "locked")) =>
                    locals[t].loaded = OnDisk
             /\ (Leave(t) /\ pc[t] = "dump") =>
                    /\ file' = "document"
                    /\ data' = Section(locals[t]).data
             /\ (Enter(t) /\ pc'[t] = "locked") =>
                    \A s \in Threads \ {t} : pc[s] \notin {"locked", "dump"}]_vars
    /\ [](\A t \in Threads : pc[t] \in {"locked", "dump"} => lock = t)

\* C17 witness: while thread 1 handled a /verify, thread 2 handled the bot
\* joining a group; the set_binding of the one and the add_group of the
\* other are both in the document.
C17_Witness ==
    /\ Running(1, "verify")
    /\ locals[1].status = "Success"
    /\ ret.thread = 2
    /\ ret.op = "join"
    /\ file = "document"
    /\ In(Complete(data).groups, ret.group)
    /\ get_binding(Complete(data), locals[1].qq) = locals[1].username

\* C18: a thread that is inside a call to the chat client or the account
\* service does not hold the lock, and is not inside a critical section: what
\* it sends was read in sections it has left.
C18_NoNetworkUnderLock ==
    \A t \in Threads :
        pc[t] = "net" =>
            /\ lock # t
            /\ locals[t].block = None
            /\ locals[t].loaded = EmptyDict

\* C18 witness: thread 1 waits for the answer to a membership query while
\* thread 2 is inside a critical section.
C18_Witness ==
    /\ pc[1] = "net"
    /\ locals[1].net = "is_user_in_group"
    /\ pc[2] = "locked"
    /\ lock = 2

\* C19: on a file that is missing or is not JSON every critical section
\* loads the empty document without raising, and goes on as it does on the
\* default document: the lookups find nothing, the roster is empty, the
\* cooldown check passes, verify finds no pending request, and a section that
\* writes leaves a document with its own effect.
C19_BadFileAsEmpty ==
    /\ [][\A t \in Threads :
             (Enter(t) /\ file # "document") =>
                 /\ pc'[t] = "locked"
                 /\ locals'[t].loaded = EmptyDict]_vars
    /\ [](\A t \in Threads :
             (pc[t] = "locked" /\ locals[t].loaded = EmptyDict) =>
                 LET r == Section(locals[t])
                     e == Section([locals[t] EXCEPT !.loaded = DefaultDocument])
                 IN /\ r.write = e.write
                    /\ r.l = [e.l EXCEPT !.loaded = EmptyDict]
                    /\ r.write => Complete(r.data) = e.data)

(* --------------- set_binding on a document edited by hand ------------- *)
\* The identities found in a document that was edited outside the program.
EditedQQNumbers == QQNumbers \cup {"10002"}

\* The dicts with keys in K and values in V.
Dicts(K, V) == UNION {[S -> V] : S \in SUBSET K}

\* Documents as _load returns them from a file written by hand: the two maps
\* are any two dicts, the other keys are as _ensure_file wrote them.
EditedDocuments ==
    {[DefaultDocument EXCEPT !.bindings = b, !.user_qq_map = m] :
        b \in Dicts(EditedQQNumbers, Usernames),
        m \in Dicts(Usernames, EditedQQNumbers)}

InitEdited ==
    /\ data \in EditedDocuments
    /\ now = 0
    /\ pc = [t \in Threads |-> "idle"]
    /\ locals = [t \in Threads |-> NoLocals]
    /\ ret = NoRet
    /\ calls = 0
    /\ file = "document"
    /\ lock = 0

NextEdited ==
    /\ CallsLeft(MaxCalls)
    /\ \E t \in Threads, q \in QQNumbers, u \in Usernames : SetBinding(t, q, u)

SpecEdited == InitEdited /\ [][NextEdited]_vars

\* C20: whatever the two maps held before, after a set_binding the forward
\* map and the reverse map are exact inverses of each other.
C20_BindRestoresBijection ==
    [][(\E t \in Threads, q \in QQNumbers, u \in Usernames : SetBinding(t, q, u))
          => C1_Bijection']_vars

(* ------------------------------ the roster ---------------------------- *)
\* The lists get_group_list returns at a connect: two groups, a group
\* listed twice, and an entry without group_id.
SyncLists == {<<"20001", "20002">>, <<"20002", "20002">>, <<"", "20001">>}

\* calls started in one behaviour of the roster handlers
MaxRosterCalls == 3

\* The bot joins and leaves groups and the group list is synchronised, on
\* any thread.
NextRoster ==
    \/ /\ CallsLeft(MaxRosterCalls)
       /\ \E t \in Threads, g \in GroupIds : GroupJoin(t, g)
    \/ /\ CallsLeft(MaxRosterCalls)
       /\ \E t \in Threads, g \in GroupIds : GroupLeave(t, g)
    \/ /\ CallsLeft(MaxRosterCalls)
       /\ \E t \in Threads, gs \in SyncLists : Sync(t, gs)
    \/ \E t \in Threads : Enter(t)
    \/ \E t \in Threads : Truncate(t)
    \/ \E t \in Threads : Leave(t)

SpecRoster == Init /\ [][NextRoster]_vars

\* No element of the list occurs twice.
NoDuplicates(seq) == \A i, j \in 1..Len(seq) : seq[i] = seq[j] => i = j

\* C21: the stored roster never lists a group twice; add_group of a group
\* that is listed and remove_group of one that is not write nothing;
\* add_group of a group that is not listed puts it at the end, and after
\* remove_group of a group the roster does not list it.
C21_RosterIsSet ==
    /\ [][\A t \in Threads :
             /\ Leaves(t, "add_group") =>
                    LET before == Field(locals[t].loaded, "groups")
                    IN /\ In(Field(data', "groups"), locals[t].group)
                       /\ IF In(before, locals[t].group)
                          THEN data' = data /\ file' = file /\ pc[t] = "locked"
                          ELSE Field(data', "groups") = Append(before, locals[t].group)
             /\ Leaves(t, "remove_group") =>
                    LET before == Field(locals[t].loaded, "groups")
                    IN /\ ~In(Field(data', "groups"), locals[t].group)
                       /\ ~In(before, locals[t].group) =>
                              data' = data /\ file' = file /\ pc[t] = "locked"]_vars
    /\ [](NoDuplicates(Field(data, "groups")))

\* C21 witness: after a join and a leave, a synchronisation that was given
\* the group 20002 twice has returned and the roster lists 20002 once.
C21_Witness ==
    /\ ret.op = "sync"
    /\ ret.status = "Synced"
    /\ ret.groups = <<"20002", "20002">>
    /\ Field(data, "groups") = <<"20002">>
    /\ calls = MaxRosterCalls
    /\ \A t \in Threads : pc[t] = "idle"

(* ------------------- what a handler leaves untouched ------------------ *)
\* The documents the handlers find: 10001 is linked to alice and prefers
\* the private chat or the group 20001, the bot is in 20001, and there is no
\* pending request, one of the identity "" for alice, or one of 10001 for
\* bob.
EffectDocuments ==
    {[d EXCEPT !.notifications = Put(EmptyDict, "10001", n)] :
        n \in {PRIVATE, "20001"},
        d \in {LinkedDocument,
               create_pending_binding(LinkedDocument, "", "alice",
                                      CHOOSE c \in Codes : TRUE,
                                      VERIFICATION_TIMEOUT, 0),
               create_pending_binding(LinkedDocument, "10001", "bob",
                                      CHOOSE c \in Codes : TRUE,
                                      VERIFICATION_TIMEOUT, 0)}}

InitEffects ==
    /\ data \in EffectDocuments
    /\ now = 0
    /\ pc = [t \in Threads |-> "idle"]
    /\ locals = [t \in Threads |-> NoLocals]
    /\ ret = NoRet
    /\ calls = 0
    /\ file = "document"
    /\ lock = 0

\* calls started in one behaviour of the handlers
MaxEffectCalls == 1

\* Every handler, with network calls that succeed and network calls that
\* fail.
NextEffects ==
    \/ /\ CallsLeft(MaxEffectCalls)
       /\ \E t \in Threads, q \in QQNumbers, u \in Usernames : HandleBind(t, q, u)
    \/ /\ CallsLeft(MaxEffectCalls)
       /\ \E t \in Threads, q \in QQNumbers, c \in SuppliedCodes : HandleVerify(t, q, c)
    \/ /\ CallsLeft(MaxEffectCalls)
       /\ \E t \in Threads, g \in GroupIds, q \in QQNumbers : HandleNoti(t, g, q)
    \/ /\ CallsLeft(MaxEffectCalls)
       /\ \E t \in Threads, q \in QQNumbers : HandleNotiPrivate(t, q)
    \/ /\ CallsLeft(MaxEffectCalls)
       /\ \E t \in Threads, g \in GroupIds : GroupJoin(t, g)
    \/ /\ CallsLeft(MaxEffectCalls)
       /\ \E t \in Threads, g \in GroupIds : GroupLeave(t, g)
    \/ /\ CallsLeft(MaxEffectCalls)
       /\ \E t \in Threads, u \in Usernames : Notify(t, u)
    \/ \E t \in Threads : Enter(t)
    \/ \E t \in Threads : Truncate(t)
    \/ \E t \in Threads : Leave(t)
    \/ \E t \in Threads, answer \in BOOLEAN : Net(t, answer)
    \/ \E t \in Threads : NetFail(t)

SpecEffects == InitEffects /\ [][NextEffects]_vars

\* The two maps of document d are inverses of each other.
Inverse(d) ==
    /\ \A q \in DOMAIN d.bindings : get_qq_by_username(d, d.bindings[q]) = q
    /\ \A u \in DOMAIN d.user_qq_map : get_binding(d, d.user_qq_map[u]) = u

\* C22: a network call that fails writes nothing: the file and the document
\* are after it what they were before it, with the bijection of the two maps
\* and the roster as they were, and the only critical section the handler
\* still enters is the reading of the roster.
C22_AdapterFailureWritesNothing ==
    [][\A t \in Threads :
          NetFail(t) =>
              /\ data' = data
              /\ file' = file
              /\ Inverse(Complete(data)) => Inverse(Complete(data'))
              /\ NoDuplicates(Field(data', "groups"))
              /\ pc'[t] = "enter" =>
                     /\ locals'[t].block = "get_groups"
                     /\ ~Section(locals'[t]).write]_vars

\* C22 witness: the account service did not take the code of a /bind, the
\* handler has returned, and the pending entry it wrote before the call is
\* still stored.
C22_Witness ==
    /\ ret.op = "bind"
    /\ ret.status = "DeliveryFailed"
    /\ ret.qq = "10001"
    /\ ret.username = "alice"
    /\ file = "document"
    /\ "10001" \in DOMAIN data.pending_bindings
    /\ data.pending_bindings["10001"].username = "alice"

(* ---------------------- claims: requests and codes -------------------- *)
\* C23 as stated: a bind request for an identity with a pending entry passes
\* the cooldown check only when more than BIND_COOLDOWN seconds have gone by
\* since the entry was requested; at exactly BIND_COOLDOWN seconds it is
\* refused with CooldownActive.
C23_PassesOnlyAfterCooldown ==
    [][\A q \in QQNumbers, u \in Usernames :
          (BindCheckCooldown(1, q, u) /\ HasPending(q)) =>
              /\ pc'[1] = "cp_time" <=> Elapsed(q) > BIND_COOLDOWN
              /\ Elapsed(q) = BIND_COOLDOWN =>
                     /\ pc'[1] = "idle"
                     /\ ret'.status = "CooldownActive"]_vars

\* C23 as amended: the request passes the cooldown check exactly when
\* BIND_COOLDOWN seconds or more have gone by since the entry was requested;
\* at exactly BIND_COOLDOWN seconds it passes, nothing is refused and the
\* handler goes on to issue a code.
C23_PassesFromCooldownOn ==
    [][\A q \in QQNumbers, u \in Usernames :
          (BindCheckCooldown(1, q, u) /\ HasPending(q)) =>
              /\ pc'[1] = "cp_time" <=> Elapsed(q) >= BIND_COOLDOWN
              /\ Elapsed(q) = BIND_COOLDOWN =>
                     /\ pc'[1] = "cp_time"
                     /\ ret' = ret
                     /\ data' = data
              /\ Elapsed(q) < BIND_COOLDOWN =>
                     /\ pc'[1] = "idle"
                     /\ ret'.status = "CooldownActive"]_vars

\* C23 witness: a request made exactly BIND_COOLDOWN seconds after the
\* pending one is past the check.
C23_Witness ==
    /\ pc[1] = "cp_time"
    /\ HasPending(locals[1].qq)
    /\ Elapsed(locals[1].qq) = BIND_COOLDOWN

\* Two of the codes random.randint(100000, 999999) gives.
IssuedCodes == Codes \cup {999999}

\* calls started in one behaviour of the requests with two codes
MaxRequestCalls == 3

\* The /bind and /verify commands on the thread of the websocket client,
\* with codes that differ from one request to the next.
NextRequest ==
    \/ /\ CallsLeft(MaxRequestCalls)
       /\ \E q \in QQNumbers, u \in Usernames : BindCheckCooldown(1, q, u)
    \/ \E c \in IssuedCodes : CreatePendingTimes(1, c)
    \/ CreatePending(1)
    \/ /\ CallsLeft(MaxRequestCalls)
       /\ \E q \in QQNumbers, c \in IssuedCodes \cup {WrongCode} : Verify(1, q, c)
    \/ VerifyBind(1)
    \/ \E i \in Instants : Tick(i)

SpecRequest == Init /\ [][NextRequest]_vars

C25_ExpiredEntryIsInert ==
    [][/\ \A q \in QQNumbers, u \in Usernames :
              (/\ BindCheckCooldown(1, q, u)
               /\ HasPending(q)
               /\ Elapsed(q) >= BIND_COOLDOWN) =>
                  /\ pc'[1] = "cp_time"
                  /\ locals'[1].qq = q
                  /\ data' = data
                  /\ ret' = ret
       /\ (/\ CreatePending(1)
           /\ HasPending(locals[1].qq)
           /\ data.pending_bindings[locals[1].qq].expire_time < locals[1].request_time) =>
              /\ data'.pending_bindings[locals[1].qq].request_time = locals[1].request_time
              /\ data'.pending_bindings[locals[1].qq].expire_time >= now
              /\ ret'.status = "CodeIssued"]_vars

\* C25 witness: the last thing that returned was the code of a request of an
\* identity, the entry of that request is past its expiry, and the next
\* request of the identity is past the check.
C25_Witness ==
    /\ pc[1] = "cp_time"
    /\ ret.status = "CodeIssued"
    /\ ret.qq = locals[1].qq
    /\ HasPending(ret.qq)
    /\ data.pending_bindings[ret.qq].code = ret.code
    /\ PastExpiry(ret.qq)

(* ------------------------ claims: notifications ----------------------- *)
\* The two sends of the webhook handlers.
NotificationSends == {"send_group_at_message", "send_private_message"}

\* C26: a webhook for an account without identity sends nothing, writes
\* nothing and returns; one for an account with an identity resolves the
\* channel and ends with one send, the mention in the resolved group or the
\* private message to the identity, so that every handler that found an
\* identity returns with its notification sent.
C26_NotificationNeverDropped ==
    /\ [][\A t \in Threads :
             /\ Leaves(t, "get_qq_by_username") =>
                    /\ data' = data
                    /\ IF get_qq_by_username(Complete(data), locals[t].username) = None
                       THEN /\ pc'[t] = "idle"
                            /\ ret'.status = "Skipped"
                       ELSE /\ pc'[t] = "enter"
                            /\ locals'[t].qq =
                                   get_qq_by_username(Complete(data), locals[t].username)
             /\ \A answer \in BOOLEAN :
                    (/\ Net(t, answer)
                     /\ locals[t].op = "notify"
                     /\ locals[t].net \in NotificationSends) =>
                        /\ pc'[t] = "idle"
                        /\ ret'.status = "Notified"
                        /\ locals[t].net = "send_group_at_message"
                               <=> locals[t].target \in GroupIds]_vars
    /\ [](ret.op = "notify" =>
              /\ ret.status \in {"Notified", "Skipped"}
              /\ ret.status = "Skipped" <=> ret.qq = None)

\* C27: the stored preferences are written by set_notification_group only:
\* every other critical section, of a request, a verify, the set_binding
\* that follows it, a join or a leave, leaves on disk the preferences it
\* loaded, also when it removes the link of an identity that has a
\* preference or the group that a preference names.
C27_PreferenceKept ==
    [][\A t \in Threads :
          /\ (Leave(t) /\ locals[t].block # "set_notification_group") =>
                 /\ Field(data', "notifications") =
                        Field(locals[t].loaded, "notifications")
                 /\ "notifications" \in DOMAIN data'
                        <=> "notifications" \in DOMAIN locals[t].loaded
          /\ \A answer \in BOOLEAN :
                 (Net(t, answer) \/ NetFail(t)) => data' = data]_vars

\* C27 witness: the bot has left the group 20001, which is gone from the
\* roster, and 20001 is still the stored preference of the identity 10001.
C27_Witness ==
    /\ ret.op = "leave"
    /\ ret.status = "Left"
    /\ ret.group = "20001"
    /\ file = "document"
    /\ data.groups = << >>
    /\ data.notifications["10001"] = "20001"

(* --------------------------- claims: links ---------------------------- *)
\* The pairs of a dict.
Pairs(d) == {<<k, d[k]>> : k \in DOMAIN d}

\* C28: the two maps change in one step only, the set_binding that ends a
\* verify, and what that step adds is the pair of the verified identity and
\* the account of its pending entry.  A verify gets to that step only when
\* it finds a pending entry of the identity, not past its expiry, with the
\* supplied code; a request, a verify with another code and a verify past
\* the expiry leave the maps as they are.
C28_LinkOnlyByVerify ==
    [][/\ (data'.bindings # data.bindings \/ data'.user_qq_map # data.user_qq_map) =>
              \E t \in Threads : VerifyBind(t)
       /\ \A t \in Threads :
              /\ VerifyBind(t) =>
                     /\ Pairs(data'.bindings) \subseteq
                            Pairs(data.bindings)
                                \cup {<<locals[t].qq, locals[t].username>>}
                     /\ Pairs(data'.user_qq_map) \subseteq
                            Pairs(data.user_qq_map)
                                \cup {<<locals[t].username, locals[t].qq>>}
              /\ \A q \in QQNumbers, c \in SuppliedCodes :
                     (Verify(t, q, c) /\ pc'[t] = "vb_bind") =>
                         /\ HasPending(q)
                         /\ c = StoredCode(q)
                         /\ now <= data.pending_bindings[q].expire_time
                         /\ locals'[t].qq = q
                         /\ locals'[t].username = data.pending_bindings[q].username]_vars

\* C28 witness: the only link stored is the one of the identity that has
\* verified with the issued code, to the account it asked for.
C28_Witness ==
    /\ ret.op = "verify"
    /\ ret.status = "Success"
    /\ ret.code \in Codes
    /\ Pairs(data.bindings) = {<<ret.qq, ret.username>>}
    /\ Pairs(data.user_qq_map) = {<<ret.username, ret.qq>>}

(* ------------------------ concurrent verifies ------------------------- *)
InitVerify ==
    /\ data = PendingDocument
    /\ now = 0
    /\ pc = [t \in Threads |-> "idle"]
    /\ locals = [t \in Threads |-> NoLocals]
    /\ ret = NoRet
    /\ calls = 0
    /\ file = "document"
    /\ lock = 0

\* calls started in one behaviour of the verifies
MaxVerifyCalls == 2

\* /verify commands handled at the same time, on a document with one
\* pending entry.
NextVerify ==
    \/ /\ CallsLeft(MaxVerifyCalls)
       /\ \E t \in Threads, q \in QQNumbers, c \in SuppliedCodes : HandleVerify(t, q, c)
    \/ \E t \in Threads : Enter(t)
    \/ \E t \in Threads : Truncate(t)
    \/ \E t \in Threads : Leave(t)
    \/ \E t \in Threads, answer \in BOOLEAN : Net(t, answer)

SpecVerify == InitVerify /\ [][NextVerify]_vars

\* The threads whose verify of identity q has found the code right and has
\* not yet stored the link.
Verified(q) ==
    {t \in Threads : /\ Running(t, "verify")
                     /\ locals[t].qq = q
                     /\ locals[t].block = "set_binding"}

\* The verifies of identity q that have stored their link.
Linked(q) == IF get_binding(Complete(data), q) # None THEN 1 ELSE 0

\* C29: of the verifies that supply the right code for one pending entry,
\* one consumes it: the entry is off the disk when that verify leaves its
\* critical section, so at no time have two verifies of the identity found
\* the code right, and a verify that finds no entry returns
\* NoPendingRequest and writes nothing.
C29_ConsumedOnce ==
    /\ [][\A t \in Threads :
             Leaves(t, "verify_binding") =>
                 LET q == locals[t].qq
                     pending == Field(locals[t].loaded, "pending_bindings")
                 IN IF q \notin DOMAIN pending
                    THEN /\ locals'[t].status = "NoPendingRequest"
                         /\ pc'[t] = "net"
                         /\ data' = data
                    ELSE (locals[t].code = pending[q].code /\ locals[t].clock <= pending[q].expire_time) =>
                            /\ locals'[t].block = "set_binding"
                            /\ locals'[t].username = pending[q].username
                            /\ q \notin DOMAIN data'.pending_bindings]_vars
    /\ [](\A q \in QQNumbers :
              /\ Cardinality(Verified(q)) + Linked(q) <= 1
              /\ (Verified(q) # {} /\ file = "document") =>
                     q \notin DOMAIN data.pending_bindings)

\* C29 witness: two verifies of 10001 with the stored code ran at the
\* same time; one has returned NoPendingRequest while the other, which has
\* stored the link, is about to return Success.
C29_Witness ==
    /\ ret.op = "verify"
    /\ ret.status = "NoPendingRequest"
    /\ ret.qq = "10001"
    /\ ret.code \in Codes
    /\ \E t \in Threads :
          /\ Running(t, "verify")
          /\ locals[t].qq = "10001"
          /\ locals[t].code \in Codes
          /\ locals[t].status = "Success"
    /\ get_binding(Complete(data), "10001") = "alice"

(* ----------------------------- progress ------------------------------- *)
InitLive ==
    /\ file \in {"document", "undecodable"}
    /\ data = IF file = "document" THEN PendingDocument ELSE EmptyDict
    /\ now = 0
    /\ pc = [t \in Threads |-> "idle"]
    /\ locals = [t \in Threads |-> NoLocals]
    /\ ret = NoRet
    /\ calls = 0
    /\ lock = 0

\* calls started in one behaviour of the threads that are scheduled fairly
MaxLiveCalls == 2

\* /bind and /verify commands of the identity 10001 handled at the same
\* time.
NextLive ==
    \/ /\ CallsLeft(MaxLiveCalls)
       /\ \E t \in Threads, u \in Usernames : HandleBind(t, "10001", u)
    \/ /\ CallsLeft(MaxLiveCalls)
       /\ \E t \in Threads, c \in SuppliedCodes : HandleVerify(t, "10001", c)
    \/ \E t \in Threads : Enter(t)
    \/ \E t \in Threads : Truncate(t)
    \/ \E t \in Threads : Leave(t)
    \/ \E t \in Threads, answer \in BOOLEAN : Net(t, answer)

\* Every thread that can take a step is scheduled in the end: a thread
\* that waits for the lock gets it once it stays free, a save and a block
\* come to their end, and a network call returns (its timeout is 10 s).
Fairness ==
    \A t \in Threads :
        /\ WF_vars(Enter(t))
        /\ WF_vars(Truncate(t))
        /\ WF_vars(Leave(t))
        /\ WF_vars(\E answer \in BOOLEAN : Net(t, answer))

SpecLive == InitLive /\ [][NextLive]_vars /\ Fairness

\* C30: a thread holds the lock only inside a critical section: not when it
\* is about to enter one, verify_binding is out of its block before
\* set_binding asks for the lock, and not after a block has ended, by its
\* last line, by an early return or by an exception.  With the threads
\* scheduled fairly every handler that has started returns, and the lock is
\* free whenever one is left held.
C30_NoDeadlock ==
    /\ [](\A t \in Threads :
              /\ pc[t] \in {"idle", "enter", "net"} => lock # t
              /\ lock = t => pc[t] \in {"locked", "dump"})
    /\ \A t \in Threads : (pc[t] # "idle") ~> (pc[t] = "idle")
    /\ (lock # 0) ~> (lock = 0)

\* C30 witness: a verify has gone through its two critical sections and has
\* returned Success, every thread is back in the event loop and the lock is
\* free.
C30_Witness ==
    /\ ret.op = "verify"
    /\ ret.status = "Success"
    /\ calls = MaxLiveCalls
    /\ \A t \in Threads : pc[t] = "idle"
    /\ lock = 0

(* ---------------------- claims: the returned group -------------------- *)
\* The queries of a list but the last.
Front(seq) == SubSeq(seq, 1, Len(seq) - 1)

\* C31 as stated: the group a resolution returns is the preference or the
\* roster entry it has just asked about, the answer was yes, and no query
\* of that resolution for the group was answered no.  Every query before
\* the last was answered no, so the group is not among them.
C31_NeverAfterNo ==
    [](\A t \in Threads :
          (/\ Running(t, "notify")
           /\ locals[t].target \in GroupIds) =>
              /\ locals[t].queries # << >>
              /\ locals[t].target = locals[t].queries[Len(locals[t].queries)]
              /\ ~In(Front(locals[t].queries), locals[t].target))

\* C31 as amended: a resolution returns a group only in the step in which
\* is_user_in_group answers yes for it, and the group is the one just asked
\* about: the preference when the roster has not been read, the entry at the
\* scan position of the roster as read otherwise.  An answer of no returns
\* no group.  A group that answered no as the preference is asked about
\* again when the roster lists it, and is returned when it then answers yes.
C31_ReturnedGroupAnsweredYes ==
    /\ [][\A t \in Threads, answer \in BOOLEAN :
             (/\ Net(t, answer)
              /\ locals[t].net = "is_user_in_group"
              /\ ~int_raises(locals[t].group)) =>
                 /\ locals[t].target = None
                 /\ locals[t].group = IF locals[t].scan = 0
                                      THEN locals[t].preferred
                                      ELSE locals[t].groups[locals[t].scan]
                 /\ locals'[t].queries = Append(locals[t].queries, locals[t].group)
                 /\ IF answer
                    THEN /\ locals'[t].target = locals[t].group
                         /\ locals'[t].net = "send_group_at_message"
                    ELSE locals'[t].target \notin GroupIds]_vars
    /\ [](\A t \in Threads :
              (/\ Running(t, "notify")
               /\ locals[t].target \in GroupIds) =>
                  /\ locals[t].net = "send_group_at_message"
                  /\ locals[t].target = locals[t].queries[Len(locals[t].queries)]
                  /\ \/ locals[t].scan = 0 /\ locals[t].target = locals[t].preferred
                     \/ /\ locals[t].scan >= 1
                        /\ locals[t].target = locals[t].groups[locals[t].scan])

\* C31 witness: the preferred group 20001 answered no, the roster lists it,
\* the second query for it answered yes, and the notification has gone to
\* 20001.
C31_Witness ==
    /\ ret.op = "notify"
    /\ ret.status = "Notified"
    /\ ret.preferred = "20001"
    /\ ret.scan = 1
    /\ ret.groups = <<"20001">>
    /\ ret.queries = <<"20001", "20001">>
    /\ ret.target = "20001"

====
